---- MODULE Spec2Model ----
(***************************************************************************)
(* A model of interact_model (src/gpt_2/interactive_conditional_samples.py)*)
(* as a sequential state machine: one action per statement group of the    *)
(* function, `pc` naming the statement that runs next.  The collaborators  *)
(* that live outside the file (the encoder, the default hyperparameters,   *)
(* the sampling graph and the session run) are modelled by what the file   *)
(* asks of them.                                                           *)
(***************************************************************************)
EXTENDS Integers, Sequences, FiniteSets, TLC

\* ------------------------------------------------------------------ bounds
\* nsamples and batch_size arguments range up to MaxSamples.
MaxSamples == 4
\* n_ctx values found in hparams.json range over 1..MaxCtx.
MaxCtx == 2
\* At most MaxLines lines are typed on stdin before it is closed.
MaxLines == 2

\* ------------------------------------------------------------- value sets
\* Python's None, and a value that is not None: an optional value is a sequence
\* of at most one element.
None == <<>>
Some(v) == <<v>>
Val(x) == x[1]
\* No exception was raised.
NoError == "none"

\* Lines the user may type: the empty line, a one-token line and a line whose
\* three characters encode to two tokens.
Texts == { <<>>, <<"a">>, <<"a", "b", "a">> }

SeedArgs == {None, Some(7)}
NSamplesArgs == (-1)..MaxSamples
BatchSizeArgs == {None} \cup {Some(b) : b \in 0..MaxSamples}
LengthArgs == {None} \cup {Some(l) : l \in 1..(MaxCtx + 1)}

\* What the model directory models_dir/model_name holds.
ModelDirs == {"complete", "no_encoder", "no_hparams", "no_checkpoint",
              "unbuildable", "bad_checkpoint"}

\* The contents hparams.json may have: no n_ctx key (and an n_vocab that
\* overrides the default), or n_ctx = c beside a key the defaults do not have.
HparamsFiles ==
    { [n_vocab |-> 5] } \cup { [n_ctx |-> c, n_extra |-> 9] : c \in 1..MaxCtx }

\* Seeds the operating system may hand out when no seed is given.
Entropy == {0, 3}

VARIABLES
    args,            \* the call's arguments: seed, nsamples, batch_size, length
    model_dir,       \* what models_dir/model_name holds
    hparams_json,    \* the contents of hparams.json
    pc,              \* the statement that runs next
    error,           \* the exception that ended the call, or NoError
    batch_size,      \* local batch_size (line 46-47 may rebind it)
    length,          \* local length (line 58-59 may rebind it)
    enc,             \* the encoder: None until get_encoder returned
    hparams,         \* the hyperparameter structure: None until built
    hparams_opened,  \* hparams.json has been opened
    n_ctx,           \* local n_ctx: None until line 57 ran
    sess,            \* the session: None until line 65 ran, then open or closed
    sessions,        \* how many sessions were constructed
    context,         \* the placeholder's shape: None until line 66 ran
    np_seeded,       \* np.random.seed was called
    np_seed,         \* what numpy's generator was seeded with (None: entropy)
    tf_seeded,       \* set_random_seed was called
    graph_seed,      \* the graph-level seed (None: not set)
    output,          \* the generation computation: None until line 69 ran
    ckpt_lookups,    \* how often latest_checkpoint was called
    restores,        \* how often saver.restore succeeded
    rng,             \* the sampling ops' generator state while the session runs
    raw_text,        \* local raw_text
    context_tokens,  \* local context_tokens
    generated,       \* local generated
    rnd,             \* rounds of the for loop of line 89 that have run for this prompt
    feed,            \* the batch fed by the last sess.run
    result,          \* what the last sess.run returned
    out,             \* local out: the sliced result
    encode_calls,    \* the texts enc.encode was called with
    stdin,           \* the lines typed so far
    rd,              \* how many of them input() has consumed
    closed,          \* stdin was closed after the lines typed
    stdout,          \* what was printed
    run,             \* 1 for the first run of the program, 2 for a repeated one
    prev_stdout      \* what the first run printed (in a repeated run)

config == <<args, model_dir, hparams_json>>
params == <<batch_size, length>>
loaded == <<enc, hparams, hparams_opened, n_ctx>>
session == <<sess, sessions>>
seeds == <<np_seeded, np_seed, tf_seeded, graph_seed>>
graph == <<context, output, ckpt_lookups, restores>>
locals == <<params, loaded, session, seeds, graph, rng>>
loopvars == <<raw_text, context_tokens, generated, rnd, feed, result, out, encode_calls>>
io == <<stdin, rd, closed, stdout>>
runs == <<run, prev_stdout>>
vars == <<config, pc, error, locals, loopvars, io, runs>>

\* ---------------------------------------------------------------- helpers
\* Python's a % b and a // b for b > 0 (floor semantics).
PyMod(a, b) == a % b
PyFloorDiv(a, b) == a \div b

\* A line of output.
Line(kind, n, text) == [kind |-> kind, n |-> n, text |-> text]
PromptMarker == Line("prompt", 0, <<>>)
EmptyNotice == Line("notice", 0, <<>>)
SampleHeader(n) == Line("header", n, <<>>)
SampleText(text) == Line("text", 0, text)
OuterSeparator == Line("separator", 0, <<>>)

\* The locals and resources before the function body has run.
FreshLocals ==
    /\ pc = "validate"
    /\ error = NoError
    /\ batch_size = args.batch_size
    /\ length = args.length
    /\ enc = None
    /\ hparams = None
    /\ hparams_opened = FALSE
    /\ n_ctx = None
    /\ sess = None
    /\ sessions = 0
    /\ context = None
    /\ np_seeded = FALSE
    /\ np_seed = None
    /\ tf_seeded = FALSE
    /\ graph_seed = None
    /\ output = None
    /\ ckpt_lookups = 0
    /\ restores = 0
    /\ rng = None
    /\ raw_text = <<>>
    /\ context_tokens = <<>>
    /\ generated = 0
    /\ rnd = 0
    /\ feed = <<>>
    /\ result = <<>>
    /\ out = <<>>
    /\ encode_calls = <<>>
    /\ rd = 0
    /\ stdout = <<>>

Init ==
    /\ args \in [seed : SeedArgs, nsamples : NSamplesArgs,
                 batch_size : BatchSizeArgs, length : LengthArgs]
    /\ model_dir \in ModelDirs
    /\ hparams_json \in HparamsFiles
    /\ stdin = <<>>
    /\ closed = FALSE
    /\ run = 1
    /\ prev_stdout = <<>>
    /\ FreshLocals

\* The call ends with exception e.
Raise(e) == pc' = "raised" /\ error' = e

\* ---------------------------------------------------------------- startup
\* Lines 45-48: expand models_dir, default batch_size, assert divisibility.
\* nsamples % 0 raises ZeroDivisionError.
ResolvedBatchSize == IF batch_size = None THEN 1 ELSE Val(batch_size)

\* Mutant: the assertion of line 48 is not evaluated.
Divides_NoCheck(bs, n) == TRUE

Divides(bs, n) == PyMod(n, bs) = 0

Validate ==
    /\ pc = "validate"
    /\ batch_size' = Some(ResolvedBatchSize)
    /\ IF ResolvedBatchSize = 0
         THEN Raise("ZeroDivisionError")
         ELSE IF Divides(ResolvedBatchSize, args.nsamples)
                THEN pc' = "get_encoder" /\ UNCHANGED error
                ELSE Raise("AssertionError")
    /\ UNCHANGED <<config, length, loaded, session, seeds, graph, rng, loopvars, io, runs>>

\* Line 50: encoder.get_encoder opens encoder.json and vocab.bpe of the model.
GetEncoder ==
    /\ pc = "get_encoder"
    /\ IF model_dir = "no_encoder"
         THEN Raise("FileNotFoundError") /\ UNCHANGED enc
         ELSE pc' = "load_hparams" /\ enc' = Some("encoder") /\ UNCHANGED error
    /\ UNCHANGED <<config, params, hparams, hparams_opened, n_ctx, session, seeds, graph,
                   rng, loopvars, io, runs>>

\* model.default_hparams(): the default structure (it has no n_ctx of its own).
default_hparams == [n_vocab |-> 0, n_embd |-> 768]

\* Mutant: only the keys the defaults already have are set.
Overlay_KnownKeysOnly(h, d) == [k \in DOMAIN h |-> IF k \in DOMAIN d THEN d[k] ELSE h[k]]

\* Lines 54-55: setattr(hparams, k, v) for every item of the metadata.
Overlay(h, d) == [k \in (DOMAIN h) \cup (DOMAIN d) |-> IF k \in DOMAIN d THEN d[k] ELSE h[k]]

\* Lines 51-55: build the defaults, open hparams.json and overlay its items.
LoadHparams ==
    /\ pc = "load_hparams"
    /\ IF model_dir = "no_hparams"
         THEN /\ Raise("FileNotFoundError")
              /\ hparams' = Some(default_hparams)
              /\ UNCHANGED hparams_opened
         ELSE /\ pc' = "resolve_length"
              /\ hparams' = Some(Overlay(default_hparams, hparams_json))
              /\ hparams_opened' = TRUE
              /\ UNCHANGED error
    /\ UNCHANGED <<config, params, enc, n_ctx, session, seeds, graph, rng, loopvars, io, runs>>

\* Line 57: getattr(hparams, name, default).
GetAttr(h, name, default) == IF name \in DOMAIN h THEN h[name] ELSE default

\* Line 57: the fallback window size.
DefaultNCtx == 1024

\* Line 59: the default length for a window.
DefaultLength(window) == PyFloorDiv(window, 2)

\* Mutant: the comparison of line 60 is off by one.
TooLong_OffByOne(len, window) == len > window + 1

\* Line 60: the explicit length is too long for the window.
TooLong(len, window) == len > window

\* Line 61: the ValueError naming the window size.
WindowError == "ValueError: Can't get samples longer than window size"

\* Mutant: the length is resolved inside the with block, the session being
\* constructed before the check of line 60.
ResolveLength_InSession ==
    LET window == GetAttr(Val(hparams), "n_ctx", DefaultNCtx) IN
    /\ pc = "resolve_length"
    /\ n_ctx' = Some(window)
    /\ sessions' = sessions + 1
    /\ IF length = None
         THEN /\ pc' = "placeholder" /\ length' = Some(DefaultLength(window))
              /\ sess' = Some("open") /\ UNCHANGED error
         ELSE IF TooLong(Val(length), window)
                THEN Raise(WindowError) /\ sess' = Some("closed") /\ UNCHANGED length
                ELSE pc' = "placeholder" /\ sess' = Some("open") /\ UNCHANGED <<length, error>>
    /\ UNCHANGED <<config, batch_size, enc, hparams, hparams_opened, seeds, graph,
                   rng, loopvars, io, runs>>

\* Lines 57-61: read n_ctx and resolve length against it.
ResolveLength ==
    LET window == GetAttr(Val(hparams), "n_ctx", DefaultNCtx) IN
    /\ pc = "resolve_length"
    /\ n_ctx' = Some(window)
    /\ IF length = None
         THEN pc' = "open_session" /\ length' = Some(DefaultLength(window)) /\ UNCHANGED error
         ELSE IF TooLong(Val(length), window)
                THEN Raise(WindowError) /\ UNCHANGED length
                ELSE pc' = "open_session" /\ UNCHANGED <<length, error>>
    /\ UNCHANGED <<config, batch_size, enc, hparams, hparams_opened, session, seeds, graph,
                   rng, loopvars, io, runs>>

\* Lines 63-65: with tf1.Session(graph=tf1.Graph()) as sess.
OpenSession ==
    /\ pc = "open_session"
    /\ pc' = "placeholder"
    /\ sess' = Some("open")
    /\ sessions' = sessions + 1
    /\ UNCHANGED <<config, error, params, loaded, seeds, graph, rng, loopvars, io, runs>>

\* Line 66: the placeholder of shape [batch_size, None].
Placeholder ==
    /\ pc = "placeholder"
    /\ pc' = "seed"
    /\ context' = Some(Val(batch_size))
    /\ UNCHANGED <<config, error, params, loaded, session, seeds, output, ckpt_lookups,
                   restores, rng, loopvars, io, runs>>

\* Mutant: only numpy's generator is seeded; line 68 is missing.
SeedRngs_NumpyOnly ==
    /\ pc = "seed"
    /\ pc' = "sample_sequence"
    /\ np_seeded' = TRUE
    /\ np_seed' = args.seed
    /\ UNCHANGED <<tf_seeded, graph_seed>>
    /\ UNCHANGED <<config, error, params, loaded, session, graph, rng, loopvars, io, runs>>

\* Mutant: both generators are seeded with None whatever the seed argument is.
SeedRngs_IgnoreSeed ==
    /\ pc = "seed"
    /\ pc' = "sample_sequence"
    /\ np_seeded' = TRUE
    /\ np_seed' = None
    /\ tf_seeded' = TRUE
    /\ graph_seed' = None
    /\ UNCHANGED <<config, error, params, loaded, session, graph, rng, loopvars, io, runs>>

\* Lines 67-68: np.random.seed(seed) and tf1.set_random_seed(seed).
SeedRngs ==
    /\ pc = "seed"
    /\ pc' = "sample_sequence"
    /\ np_seeded' = TRUE
    /\ np_seed' = args.seed
    /\ tf_seeded' = TRUE
    /\ graph_seed' = args.seed
    /\ UNCHANGED <<config, error, params, loaded, session, graph, rng, loopvars, io, runs>>

\* An exception leaves the with block of line 65, which closes the session.
RaiseInSession(e) == Raise(e) /\ sess' = Some("closed")

\* Lines 69-77: sample.sample_sequence builds the sampling ops in the graph, bound
\* to hparams, length, context and batch_size.  An op made while the graph-level
\* seed is set draws from a stream fixed by that seed; otherwise from entropy.
\* A model directory whose hyperparameters no graph can be built from makes the
\* call raise.
SampleSequence ==
    /\ pc = "sample_sequence"
    /\ IF model_dir = "unbuildable"
         THEN /\ RaiseInSession("ValueError: the model cannot be built")
              /\ UNCHANGED <<output, rng>>
         ELSE /\ pc' = "restore"
              /\ output' = Some([hparams |-> Val(hparams), length |-> Val(length),
                                 context |-> Val(context), batch_size |-> Val(batch_size)])
              /\ IF graph_seed = None
                   THEN \E e \in Entropy : rng' = Some(e)
                   ELSE rng' = Some(Val(graph_seed) % 8)
              /\ UNCHANGED <<error, sess>>
    /\ UNCHANGED <<config, params, loaded, sessions, seeds, context, ckpt_lookups,
                   restores, loopvars, io, runs>>

\* Line 80: what saver.restore raises, if anything, for the model directory.
RestoreError ==
    CASE model_dir = "no_checkpoint" -> "ValueError: Can't load save_path when it is None"
      [] model_dir = "bad_checkpoint" -> "DataLossError"
      [] OTHER -> NoError

\* Mutant: a failed restore is swallowed and the loop is entered all the same.
Restore_IgnoreFailure ==
    /\ pc = "restore"
    /\ ckpt_lookups' = ckpt_lookups + 1
    /\ pc' = "prompt"
    /\ restores' = IF RestoreError # NoError THEN restores ELSE restores + 1
    /\ UNCHANGED <<error, sess>>
    /\ UNCHANGED <<config, params, loaded, sessions, seeds, context, output, rng,
                   loopvars, io, runs>>

\* Lines 78-80: a Saver, the latest checkpoint of the model directory (None when
\* there is none, which saver.restore refuses), and the restore.
Restore ==
    /\ pc = "restore"
    /\ ckpt_lookups' = ckpt_lookups + 1
    /\ IF RestoreError # NoError
         THEN RaiseInSession(RestoreError) /\ UNCHANGED restores
         ELSE pc' = "prompt" /\ restores' = restores + 1 /\ UNCHANGED <<error, sess>>
    /\ UNCHANGED <<config, params, loaded, sessions, seeds, context, output, rng,
                   loopvars, io, runs>>

\* ------------------------------------------------------------ collaborators
\* enc.encode: byte-pair encoding over the vocabulary a = 1, b = 2, ab = 3; the
\* pair "ab" merges into one token, so a text and its tokens differ in length.
RECURSIVE encode(_)
encode(text) ==
    IF text = <<>> THEN <<>>
    ELSE IF Len(text) >= 2 /\ text[1] = "a" /\ text[2] = "b"
           THEN <<3>> \o encode(SubSeq(text, 3, Len(text)))
           ELSE <<IF text[1] = "a" THEN 1 ELSE 2>> \o encode(Tail(text))

\* enc.decode: the text of each token, concatenated (halving the sequence keeps
\* the recursion shallow on long completions).
TokenText(token) ==
    CASE token = 1 -> <<"a">>
      [] token = 2 -> <<"b">>
      [] OTHER -> <<"a", "b">>

RECURSIVE decode(_)
decode(tokens) ==
    IF tokens = <<>> THEN <<>>
    ELSE IF Len(tokens) = 1 THEN TokenText(tokens[1])
    ELSE LET half == Len(tokens) \div 2 IN
         decode(SubSeq(tokens, 1, half)) \o decode(SubSeq(tokens, half + 1, Len(tokens)))

\* The token the sampling ops draw for batch slot i at position j from generator
\* state r, and the generator state after one run.
SampleToken(r, i, j) == ((r + 2 * i + j) % 3) + 1
NextRng(r) == (5 * r + 3) % 8

\* sess.run(output, feed_dict): for every slot, the fed prefix followed by
\* `length` sampled tokens.
SessRun(op, batch, r) ==
    [i \in 1..Len(batch) |-> batch[i] \o [j \in 1..op.length |-> SampleToken(r, i, j)]]

\* ------------------------------------------------------------------- loop
\* input(): a line of stdin already typed, or one typed now.
InputLine(line) ==
    \/ /\ rd < Len(stdin)
       /\ line = stdin[rd + 1]
       /\ rd' = rd + 1
       /\ UNCHANGED <<stdin, closed>>
    \/ /\ rd = Len(stdin)
       /\ ~closed
       /\ Len(stdin) < MaxLines
       /\ line \in Texts
       /\ stdin' = Append(stdin, line)
       /\ rd' = rd + 1
       /\ UNCHANGED closed

\* input() at the end of stdin raises EOFError (the marker is already written).
InputEOF ==
    /\ rd = Len(stdin)
    /\ closed' = TRUE
    /\ stdout' = Append(stdout, PromptMarker)
    /\ RaiseInSession("EOFError")
    /\ UNCHANGED <<stdin, rd, raw_text>>

\* Line 83: raw_text = input("Model prompt >>> ").
ReadPrompt ==
    /\ pc = "prompt"
    /\ \/ /\ \E line \in Texts : InputLine(line) /\ raw_text' = line
          /\ stdout' = Append(stdout, PromptMarker)
          /\ pc' = "check_empty"
          /\ UNCHANGED <<error, sess>>
       \/ InputEOF
    /\ UNCHANGED <<config, params, loaded, sessions, seeds, graph, rng, context_tokens,
                   generated, rnd, feed, result, out, encode_calls, runs>>

\* Mutant: the emptiness test of line 84 is missing.
IsEmpty_Never(text) == FALSE

\* Line 84: while not raw_text.
IsEmpty(text) == text = <<>>

\* Lines 84-86: the empty line is answered with a notice and a new input().
Reprompt ==
    /\ pc = "check_empty"
    /\ IsEmpty(raw_text)
    /\ \/ /\ \E line \in Texts : InputLine(line) /\ raw_text' = line
          /\ stdout' = stdout \o <<EmptyNotice, PromptMarker>>
          /\ UNCHANGED <<pc, error, sess>>
       \/ /\ rd = Len(stdin)
          /\ closed' = TRUE
          /\ stdout' = stdout \o <<EmptyNotice, PromptMarker>>
          /\ RaiseInSession("EOFError")
          /\ UNCHANGED <<stdin, rd, raw_text>>
    /\ UNCHANGED <<config, params, loaded, sessions, seeds, graph, rng, context_tokens,
                   generated, rnd, feed, result, out, encode_calls, runs>>

\* Mutant: generated is not reset for a new prompt (line 88 is missing).
Encode_NoReset ==
    /\ pc = "check_empty"
    /\ ~IsEmpty(raw_text)
    /\ pc' = "rounds"
    /\ context_tokens' = encode(raw_text)
    /\ encode_calls' = Append(encode_calls, raw_text)
    /\ rnd' = 0
    /\ UNCHANGED <<config, error, locals, raw_text, generated, feed, result, out, io, runs>>

\* Lines 87-88: context_tokens = enc.encode(raw_text); generated = 0.
Encode ==
    /\ pc = "check_empty"
    /\ ~IsEmpty(raw_text)
    /\ pc' = "rounds"
    /\ context_tokens' = encode(raw_text)
    /\ encode_calls' = Append(encode_calls, raw_text)
    /\ generated' = 0
    /\ rnd' = 0
    /\ UNCHANGED <<config, error, locals, raw_text, feed, result, out, io, runs>>

\* Mutant: the for loop runs nsamples rounds, not nsamples // batch_size.
Rounds_NoDivision == args.nsamples

\* Line 89: range(nsamples // batch_size).
Rounds == PyFloorDiv(args.nsamples, Val(batch_size))

\* Mutant: only the first slot gets the whole prefix.
FeedBatch_Diversified(tokens, bs) == [i \in 1..bs |-> IF i = 1 THEN tokens ELSE Tail(tokens)]

\* Line 92: the batch, context_tokens once per slot.
FeedBatch(tokens, bs) == [i \in 1..bs |-> tokens]

\* Mutant: the slice of line 93 starts one token early.
Slice_OffByOne(rows, n) == [i \in 1..Len(rows) |-> SubSeq(rows[i], n, Len(rows[i]))]

\* Line 93: [:, len(context_tokens):] drops the first n tokens of every row.
Slice(rows, n) == [i \in 1..Len(rows) |-> SubSeq(rows[i], n + 1, Len(rows[i]))]

\* Lines 94-98: the header and the decoded text of every row, counting on from g.
RECURSIVE PrintBatch(_, _, _)
PrintBatch(rows, g, i) ==
    IF i > Len(rows) THEN <<>>
    ELSE <<SampleHeader(g + i), SampleText(decode(rows[i]))>> \o PrintBatch(rows, g, i + 1)

\* Lines 89-98: one round of the for loop: the run, the slice, the prints.
Round ==
    LET batch == FeedBatch(context_tokens, Val(batch_size))
        res == SessRun(Val(output), batch, Val(rng))
        sliced == Slice(res, Len(context_tokens))
    IN
    /\ pc = "rounds"
    /\ rnd < Rounds
    /\ feed' = batch
    /\ result' = res
    /\ out' = sliced
    /\ rng' = Some(NextRng(Val(rng)))
    /\ generated' = generated + Val(batch_size)
    /\ stdout' = stdout \o PrintBatch(sliced, generated, 1)
    /\ rnd' = rnd + 1
    /\ UNCHANGED <<config, pc, error, params, loaded, session, seeds, graph, raw_text,
                   context_tokens, encode_calls, stdin, rd, closed, runs>>

\* Lines 90-93: what a failing sess.run raises (resource exhaustion, say).
RunFailure == "ResourceExhaustedError"

\* Mutant: the failure of sess.run is caught and the for loop goes on.
RoundFails_Swallowed ==
    /\ pc = "rounds"
    /\ rnd < Rounds
    /\ error' = RunFailure
    /\ rnd' = rnd + 1
    /\ UNCHANGED <<config, pc, params, loaded, session, seeds, graph, rng, raw_text,
                   context_tokens, generated, feed, result, out, encode_calls, io, runs>>

\* Lines 90-93: sess.run raises; nothing catches it, the with block is left.
RoundFails ==
    /\ pc = "rounds"
    /\ rnd < Rounds
    /\ RaiseInSession(RunFailure)
    /\ UNCHANGED <<config, params, loaded, sessions, seeds, graph, rng, loopvars, io, runs>>

\* Mutant: the with block sits inside the while loop, so that a new session is
\* constructed and restored for the next prompt.
Separator_Reopen ==
    /\ pc = "rounds"
    /\ rnd >= Rounds
    /\ pc' = "prompt"
    /\ stdout' = Append(stdout, OuterSeparator)
    /\ sessions' = sessions + 1
    /\ ckpt_lookups' = ckpt_lookups + 1
    /\ restores' = restores + 1
    /\ UNCHANGED <<config, error, params, loaded, sess, seeds, context, output, rng,
                   loopvars, stdin, rd, closed, runs>>

\* Mutant: the while loop is left after the separator (a break after line 99).
Separator_Break ==
    /\ pc = "rounds"
    /\ rnd >= Rounds
    /\ pc' = "returned"
    /\ stdout' = Append(stdout, OuterSeparator)
    /\ UNCHANGED <<config, error, locals, loopvars, stdin, rd, closed, runs>>

\* Line 99: print("=" * 80), then back to line 83.
Separator ==
    /\ pc = "rounds"
    /\ rnd >= Rounds
    /\ pc' = "prompt"
    /\ stdout' = Append(stdout, OuterSeparator)
    /\ UNCHANGED <<config, error, locals, loopvars, stdin, rd, closed, runs>>

\* The program is started again in the same environment with the same stdin,
\* after a run that no failure of the engine has ended.
Rerun ==
    /\ pc = "raised"
    /\ error # RunFailure
    /\ run = 1
    /\ run' = 2
    /\ prev_stdout' = stdout
    /\ closed' = TRUE
    /\ UNCHANGED <<config, stdin>>
    /\ pc' = "validate"
    /\ error' = NoError
    /\ batch_size' = args.batch_size
    /\ length' = args.length
    /\ enc' = None /\ hparams' = None /\ hparams_opened' = FALSE /\ n_ctx' = None
    /\ sess' = None /\ sessions' = 0
    /\ np_seeded' = FALSE /\ np_seed' = None /\ tf_seeded' = FALSE /\ graph_seed' = None
    /\ context' = None /\ output' = None /\ ckpt_lookups' = 0 /\ restores' = 0
    /\ rng' = None
    /\ raw_text' = <<>> /\ context_tokens' = <<>> /\ generated' = 0 /\ rnd' = 0
    /\ feed' = <<>> /\ result' = <<>> /\ out' = <<>> /\ encode_calls' = <<>>
    /\ rd' = 0
    /\ stdout' = <<>>

Next ==
    \/ Validate
    \/ GetEncoder
    \/ LoadHparams
    \/ ResolveLength
    \/ OpenSession
    \/ Placeholder
    \/ SeedRngs
    \/ SampleSequence
    \/ Restore
    \/ ReadPrompt
    \/ Reprompt
    \/ Encode
    \/ Round
    \/ RoundFails
    \/ Separator

Spec == Init /\ [][Next]_vars

\* The program when every generation call returns.  It is a single thread that
\* runs whenever it is not waiting for input, so a round that can run does run
\* and a separator that can be printed is printed.
NextReturns ==
    \/ Validate
    \/ GetEncoder
    \/ LoadHparams
    \/ ResolveLength
    \/ OpenSession
    \/ Placeholder
    \/ SeedRngs
    \/ SampleSequence
    \/ Restore
    \/ ReadPrompt
    \/ Reprompt
    \/ Encode
    \/ Round
    \/ Separator

\* Its configurations: the seeded ones (what the engine samples has no part in
\* the loop's control flow), less those whose completions are the 512 tokens of
\* the fallback window with no length given.
InitReturns ==
    /\ Init
    /\ args.seed # None
    /\ "n_ctx" \in DOMAIN hparams_json \/ args.length # None

SpecReturns ==
    InitReturns /\ [][NextReturns]_vars /\ WF_vars(Round) /\ WF_vars(Separator)

\* Two runs of the program, one after the other.
NextPair == Next \/ Rerun

SpecPair == Init /\ [][NextPair]_vars

\* ------------------------------------------------------------ properties
\* The batch size the arguments resolve to (line 46-47).
ArgBatchSize == IF args.batch_size = None THEN 1 ELSE Val(args.batch_size)

\* The arguments fail the assertion of line 48.
NotDivisible == ArgBatchSize # 0 /\ PyMod(args.nsamples, ArgBatchSize) # 0

\* Nothing of the model has been loaded, opened, created or looked up.
NothingLoaded ==
    /\ enc = None
    /\ hparams = None
    /\ ~hparams_opened
    /\ sess = None
    /\ sessions = 0
    /\ context = None
    /\ output = None
    /\ ckpt_lookups = 0
    /\ restores = 0

\* The call got past line 48.
PastValidation == pc # "validate" /\ error \notin {"AssertionError", "ZeroDivisionError"}

\* C1: a configuration with nsamples % batch_size # 0 is rejected by the
\* assertion before anything of the model is loaded (no encoder, hparams.json not
\* opened, no session, no checkpoint lookup), it never gets past validation, and
\* every configuration past validation has nsamples % batch_size = 0.
C1_RejectedBeforeAnyLoad ==
    /\ error = "AssertionError" => NotDivisible /\ NothingLoaded /\ pc = "raised"
    /\ NotDivisible => pc \in {"validate", "raised"} /\ NothingLoaded
    /\ NotDivisible /\ pc = "raised" => error = "AssertionError"
    /\ PastValidation => Val(batch_size) # 0 /\ PyMod(args.nsamples, Val(batch_size)) = 0

\* nsamples = 4 with batch_size = 3 has been rejected.
C1_Witness ==
    /\ pc = "raised"
    /\ error = "AssertionError"
    /\ args.nsamples = 4
    /\ args.batch_size = Some(3)

\* C2: an explicit length above n_ctx ends startup with the window error and no
\* session is ever constructed; an explicit length of at most n_ctx is kept
\* unchanged and is not refused; an unset length resolves to n_ctx // 2; and
\* whenever a session exists the resolved length is at most n_ctx.
C2_TargetLengthResolution ==
    /\ n_ctx # None /\ args.length # None /\ Val(args.length) > Val(n_ctx)
         => pc = "raised" /\ error = WindowError /\ sess = None /\ sessions = 0
    /\ n_ctx # None /\ args.length # None /\ Val(args.length) <= Val(n_ctx)
         => length = args.length /\ error # WindowError
    /\ n_ctx # None /\ args.length = None
         => length = Some(Val(n_ctx) \div 2) /\ error # WindowError
    /\ sess # None => n_ctx # None /\ length # None /\ Val(length) <= Val(n_ctx)

\* An explicit length equal to the window was kept and the session was opened.
C2_Witness ==
    /\ sess = Some("open")
    /\ args.length = Some(2)
    /\ n_ctx = Some(2)
    /\ length = Some(2)

\* C3: every generation request stays within the context window: the number of
\* prompt tokens fed to sess.run plus the resolved length is at most n_ctx.
C3_RequestWithinWindow ==
    \A i \in 1..Len(feed) : Len(feed[i]) + Val(length) <= Val(n_ctx)

\* A model resource of the kinds the claim lists: encoder, session, placeholder,
\* generation computation, restored weights.
NoModelResource ==
    /\ enc = None
    /\ sess = None
    /\ sessions = 0
    /\ context = None
    /\ output = None
    /\ restores = 0

\* C4 as stated: when the window error is raised no model resource, the
\* encoder included, has been allocated.
C4_NoResourceAtWindowError ==
    error = WindowError => NoModelResource

\* C4, amended: the bad-ratio error is raised with nothing loaded at all; the
\* window error is raised after the encoder was loaded and hparams.json was
\* read, and before any session, placeholder, generation computation,
\* checkpoint lookup or restore.
C4_ErrorsBeforeSession ==
    /\ error = "AssertionError" => NothingLoaded
    /\ error = WindowError =>
         /\ enc # None
         /\ hparams # None
         /\ hparams_opened
         /\ sess = None
         /\ sessions = 0
         /\ context = None
         /\ output = None
         /\ ckpt_lookups = 0
         /\ restores = 0

\* The window error was raised for length 3 against a window of 2.
C4_Witness ==
    /\ pc = "raised"
    /\ error = WindowError
    /\ args.length = Some(3)
    /\ n_ctx = Some(2)

\* C5 as stated: with a seed supplied, no graph element (placeholder or
\* generation computation) exists before both generators are seeded.
C5_SeededBeforeAnyGraphElement ==
    args.seed # None /\ (context # None \/ output # None)
        => np_seeded /\ tf_seeded

\* C5, amended: both generators are seeded with the seed argument before the
\* generation computation is built, while the session and the placeholder
\* already exist when the seeding step runs.
C5_SeededBeforeSampleSequence ==
    /\ output # None =>
         /\ np_seeded /\ tf_seeded
         /\ np_seed = args.seed /\ graph_seed = args.seed
    /\ pc = "seed" =>
         /\ sess = Some("open")
         /\ context # None
         /\ ~np_seeded /\ ~tf_seeded
         /\ output = None

\* The generation computation was built under seed 7.
C5_Witness ==
    /\ output # None
    /\ args.seed = Some(7)
    /\ graph_seed = Some(7)
    /\ pc = "restore"

\* The index of the last prompt marker printed (0 when there is none), and the
\* lines printed after it: the output of the prompt being served.
LastMarker ==
    LET marks == {k \in 1..Len(stdout) : stdout[k].kind = "prompt"} IN
    IF marks = {} THEN 0 ELSE CHOOSE k \in marks : \A j \in marks : j <= k

Segment == SubSeq(stdout, LastMarker + 1, Len(stdout))

\* The first 2 * n lines of seg are the headers 1..n, each followed by a text.
SamplesInOrder(seg, n) ==
    /\ Len(seg) >= 2 * n
    /\ \A k \in 1..n :
         /\ seg[2 * k - 1] = SampleHeader(k)
         /\ seg[2 * k].kind = "text"

\* C6: for a configuration past validation with nsamples >= 0, while a prompt
\* is served every round so far has reported exactly batch_size completions
\* (generated = rnd * batch_size), the lines printed for the prompt are the
\* headers 1..generated in that order, each followed by its completion, the last
\* batch_size of them being the rows of the last run in row order; and the outer
\* separator is printed after exactly nsamples / batch_size rounds and the
\* ordinals 1..nsamples.
C6_RoundsAndOrdinals ==
    LET bs == Val(batch_size) IN
    /\ pc = "rounds" /\ args.nsamples >= 0 =>
         /\ rnd <= args.nsamples \div bs
         /\ generated = rnd * bs
         /\ Len(Segment) = 2 * generated
         /\ SamplesInOrder(Segment, generated)
         /\ rnd > 0 =>
              /\ Len(out) = bs
              /\ \A i \in 1..bs : Segment[2 * (generated - bs + i)] = SampleText(decode(out[i]))
    /\ pc = "prompt" /\ args.nsamples >= 0 /\ Len(stdout) > 0 =>
         /\ rnd * bs = args.nsamples
         /\ generated = args.nsamples
         /\ Len(Segment) = 2 * args.nsamples + 1
         /\ SamplesInOrder(Segment, args.nsamples)
         /\ Segment[Len(Segment)] = OuterSeparator

\* nsamples = 4 with batch_size = 2 was served in 2 rounds with ordinals 1..4.
C6_Witness ==
    /\ pc = "prompt"
    /\ args.nsamples = 4
    /\ batch_size = Some(2)
    /\ rnd = 2
    /\ Len(Segment) = 9
    /\ Segment[7] = SampleHeader(4)

\* C7: every sample header printed either follows a prompt marker directly and
\* carries ordinal 1, or follows the completion of the header before it and
\* carries that header's ordinal plus one.
C7_OrdinalsRestartPerPrompt ==
    \A k \in 1..Len(stdout) :
        stdout[k].kind = "header" =>
            /\ k > 1
            /\ \/ stdout[k - 1].kind = "prompt" /\ stdout[k].n = 1
               \/ /\ k > 2
                  /\ stdout[k - 1].kind = "text"
                  /\ stdout[k - 2].kind = "header"
                  /\ stdout[k].n = stdout[k - 2].n + 1

\* A second prompt's first completion is labelled 1 after an earlier prompt
\* produced ordinal 2.
C7_Witness ==
    \E j, k \in 1..Len(stdout) :
        /\ j < k
        /\ stdout[j] = SampleHeader(2)
        /\ stdout[k] = SampleHeader(1)

\* C8: enc.encode is only ever called on non-empty text, and a step taken with
\* an empty raw_text in hand prints the notice and a new prompt marker and
\* nothing else, stays at the emptiness test (or ends with EOFError), and leaves
\* the encode calls, the tokens, the round and ordinal counters and the last
\* run untouched.
C8_EmptyNeverEncoded ==
    /\ [](\A k \in 1..Len(encode_calls) : encode_calls[k] # <<>>)
    /\ [][pc = "check_empty" /\ raw_text = <<>> =>
            /\ stdout' = stdout \o <<EmptyNotice, PromptMarker>>
            /\ pc' = "check_empty" \/ (pc' = "raised" /\ error' = "EOFError")
            /\ UNCHANGED <<encode_calls, context_tokens, generated, rnd, feed, result, out, rng>>
       ]_vars

\* An empty first line was answered by the notice and a new prompt marker, and
\* nothing has been encoded or counted.
C8_Witness ==
    /\ pc = "check_empty"
    /\ stdin = << <<>>, <<"a">> >>
    /\ stdout = <<PromptMarker, EmptyNotice, PromptMarker>>
    /\ encode_calls = <<>>
    /\ generated = 0

\* s is a prefix of t.
IsPrefix(s, t) == Len(s) <= Len(t) /\ SubSeq(t, 1, Len(s)) = s

\* C9: with a seed given, a second run of the program in the same environment,
\* on a fresh session and with the same lines on stdin, prints what the first
\* run printed: at every point a prefix of it, and all of it once it has ended
\* (the engine failing in neither run: it is a function of its inputs).
C9_SeededRunsAgree ==
    run = 2 /\ args.seed # None =>
        /\ IsPrefix(stdout, prev_stdout)
        /\ pc = "raised" /\ error # RunFailure => stdout = prev_stdout

\* A seeded second run has ended after showing completions of two prompts.
C9_Witness ==
    /\ run = 2
    /\ args.seed = Some(7)
    /\ pc = "raised"
    /\ Len(encode_calls) = 2
    /\ \E k \in 1..Len(stdout) : stdout[k].kind = "text" /\ stdout[k].text # <<>>

\* C10: after a round, every row of the run's result is the fed prompt tokens
\* followed by the row handed to decode: the row has exactly `length` tokens,
\* the generated positions in order, and none of the prompt positions; and the
\* texts printed for the round are the decodings of these rows.
C10_PromptTokensRemoved ==
    rnd > 0 /\ pc = "rounds" =>
        LET n == Len(context_tokens)
            bs == Val(batch_size)
        IN
        /\ Len(result) = bs
        /\ Len(out) = bs
        /\ \A i \in 1..bs :
             /\ feed[i] = context_tokens
             /\ Len(result[i]) = n + Val(length)
             /\ Len(out[i]) = Val(length)
             /\ result[i] = context_tokens \o out[i]
             /\ \A j \in 1..Val(length) : out[i][j] = result[i][n + j]
             /\ stdout[Len(stdout) - 2 * (bs - i)] = SampleText(decode(out[i]))

\* A two-token prompt was served with length 2 in a batch of two rows.
C10_Witness ==
    /\ pc = "rounds"
    /\ rnd > 0
    /\ Len(context_tokens) = 2
    /\ length = Some(2)
    /\ batch_size = Some(2)
    /\ Len(out) = 2

\* The lines of stdin consumed so far that are not empty.
PromptsRead == SelectSeq(SubSeq(stdin, 1, rd), LAMBDA line : line # <<>>)

\* The statements of the while loop of line 82.
InLoop == pc \in {"prompt", "check_empty", "rounds"}

\* C11: while a prompt is served its text was encoded exactly once (one encode
\* call per non-empty line read), context_tokens is that encoding, the batch fed
\* by every round is batch_size copies of it, and a round leaves context_tokens
\* and the encode calls as they were.
C11_SamePrefixEveryRoundAndSlot ==
    /\ [](pc = "rounds" =>
            /\ encode_calls = PromptsRead
            /\ context_tokens = encode(raw_text)
            /\ rnd > 0 =>
                 /\ Len(feed) = Val(batch_size)
                 /\ \A i \in 1..Len(feed) : feed[i] = encode(raw_text))
    /\ [][pc = "rounds" /\ pc' = "rounds" =>
            /\ context_tokens' = context_tokens
            /\ encode_calls' = encode_calls
            /\ Len(feed') = Val(batch_size)
            /\ \A i \in 1..Len(feed') : feed'[i] = context_tokens
       ]_vars

\* The second round of a two-token prompt was fed in a batch of two slots.
C11_Witness ==
    /\ pc = "rounds"
    /\ rnd = 2
    /\ batch_size = Some(2)
    /\ context_tokens = <<3, 1>>
    /\ feed = << <<3, 1>>, <<3, 1>> >>

\* C12: at most one session is ever constructed, the checkpoint is looked up and
\* restored at most once; in the loop exactly one session exists, open, with its
\* placeholder, its generation computation and its restored weights; and no
\* step of the loop constructs a session, rebuilds the placeholder or the
\* generation computation, or looks up or restores a checkpoint.
C12_OneSessionBuiltOnce ==
    /\ [](/\ sessions <= 1
          /\ ckpt_lookups <= 1
          /\ restores <= 1
          /\ InLoop =>
               /\ sessions = 1
               /\ sess = Some("open")
               /\ context # None
               /\ output # None
               /\ restores = 1
          /\ rd > 0 \/ stdout # <<>> => sessions = 1 /\ restores = 1)
    /\ [][InLoop => UNCHANGED <<sessions, context, output, ckpt_lookups, restores>>]_vars

\* Two prompts have been served by the one session.
C12_Witness ==
    /\ pc = "prompt"
    /\ Len(encode_calls) = 2
    /\ sessions = 1
    /\ restores = 1
    /\ sess = Some("open")

\* C13: every configuration that reaches the loop has nsamples >= 1 and
\* batch_size >= 1, and every prompt served has shown at least one completion
\* when its outer separator is printed.
C13_AcceptedConfigsArePositive ==
    /\ InLoop => args.nsamples >= 1 /\ Val(batch_size) >= 1
    /\ pc = "prompt" /\ stdout # <<>> => rnd >= 1 /\ generated >= 1

\* The window the model directory's metadata gives.
FileWindow == IF "n_ctx" \in DOMAIN hparams_json THEN hparams_json.n_ctx ELSE DefaultNCtx

\* Some step of the startup fails for this configuration and model directory.
StartupFails ==
    \/ ArgBatchSize = 0
    \/ NotDivisible
    \/ model_dir # "complete"
    \/ args.length # None /\ Val(args.length) > FileWindow

\* No prompt was read, nothing was printed, encoded or generated.
LoopUntouched ==
    /\ ~InLoop
    /\ rd = 0
    /\ stdin = <<>>
    /\ stdout = <<>>
    /\ encode_calls = <<>>
    /\ rnd = 0
    /\ generated = 0
    /\ feed = <<>>

\* C14: when a startup step fails (bad ratio, missing encoder or hparams.json,
\* length above the window, a graph that cannot be built, no checkpoint or a
\* checkpoint that cannot be restored) the checkpoint is never restored, and as
\* long as no checkpoint was restored the loop is not entered: no prompt is
\* read, nothing is printed, encoded or generated.
C14_StartupAllOrNothing ==
    /\ StartupFails => restores = 0
    /\ restores = 0 => LoopUntouched
    /\ pc = "raised" /\ restores = 0 => error # NoError

\* The checkpoint was found and could not be restored.
C14_Witness ==
    /\ pc = "raised"
    /\ model_dir = "bad_checkpoint"
    /\ error = "DataLossError"
    /\ ckpt_lookups = 1
    /\ output # None
    /\ sess = Some("closed")

\* C15: a generation call can only fail in a round of the for loop; the failing
\* step prints nothing and reads nothing, leaves the round and ordinal counters
\* as they were and ends the call with the error, the session being closed;
\* after it no step is taken (no later round, no separator, no further prompt);
\* and what is on display for the prompt is exactly the completions of the
\* rounds before the failing one, with no closing separator.
C15_RunFailureEndsTheLoop ==
    /\ [](error = RunFailure =>
            /\ pc = "raised"
            /\ sess = Some("closed")
            /\ rnd < args.nsamples \div Val(batch_size)
            /\ generated = rnd * Val(batch_size)
            /\ Len(Segment) = 2 * generated
            /\ SamplesInOrder(Segment, generated)
            /\ stdout[Len(stdout)].kind \in {"prompt", "text"})
    /\ [][error # RunFailure /\ error' = RunFailure =>
            /\ pc = "rounds"
            /\ UNCHANGED <<stdout, stdin, rd, rnd, generated, feed, result, out, rng>>
       ]_vars
    /\ [][error # RunFailure]_vars

\* The second round of nsamples = 4, batch_size = 2 failed after the first
\* round's two completions were shown.
C15_Witness ==
    /\ error = RunFailure
    /\ args.nsamples = 4
    /\ batch_size = Some(2)
    /\ rnd = 1
    /\ generated = 2
    /\ Segment[3] = SampleHeader(2)

\* The outer separators printed so far.
Separators == {k \in 1..Len(stdout) : stdout[k] = OuterSeparator}

\* C16: when every generation call returns, the loop, once entered, is only
\* ever left by the EOFError of input(); every prompt encoded has exactly one
\* outer separator once its rounds are over and none before, each separator
\* comes right after the prompt's last completion (or its prompt marker, when
\* there was no round) and is followed, if by anything, by the next prompt
\* marker; and a prompt whose rounds have begun is eventually followed by its
\* separator and the loop waiting for the next prompt.
C16_LoopOnlyEndsByInterruption ==
    /\ [](restores = 1 => InLoop \/ (pc = "raised" /\ error = "EOFError"))
    /\ [](restores = 1 =>
            /\ Cardinality(Separators) =
                 IF pc = "rounds" THEN Len(encode_calls) - 1 ELSE Len(encode_calls)
            /\ \A k \in Separators :
                 /\ k > 1
                 /\ stdout[k - 1].kind \in {"text", "prompt"}
                 /\ k < Len(stdout) => stdout[k + 1] = PromptMarker)
    /\ (pc = "rounds" ~> pc = "prompt")

\* Two prompts were served, each closed by its separator, and the loop waits
\* for a third.
C16_Witness ==
    /\ pc = "prompt"
    /\ Len(encode_calls) = 2
    /\ Cardinality(Separators) = 2
    /\ stdout[Len(stdout)] = OuterSeparator

\* C17: once hparams.json is loaded, the structure holds the metadata's value
\* for every key of the metadata (a default overridden, or a key added), the
\* default's value for every other default field, and no other field; and the
\* window used to resolve the length is the structure's n_ctx, or 1024 when the
\* structure has none.
C17_MetadataOverlaysDefaults ==
    /\ hparams_opened =>
         LET h == Val(hparams) IN
         /\ DOMAIN h = {"n_vocab", "n_embd"} \cup DOMAIN hparams_json
         /\ \A k \in DOMAIN hparams_json : h[k] = hparams_json[k]
         /\ \A k \in {"n_vocab", "n_embd"} \ DOMAIN hparams_json : h[k] = default_hparams[k]
    /\ n_ctx # None =>
         /\ hparams_opened
         /\ "n_ctx" \in DOMAIN Val(hparams) => Val(n_ctx) = Val(hparams)["n_ctx"]
         /\ "n_ctx" \notin DOMAIN Val(hparams) => Val(n_ctx) = 1024
         /\ Val(n_ctx) = FileWindow

\* A metadata file with n_ctx = 2 and a key unknown to the defaults was loaded
\* and the window read from it.
C17_Witness ==
    /\ hparams_opened
    /\ hparams_json = [n_ctx |-> 2, n_extra |-> 9]
    /\ Val(hparams) = [n_vocab |-> 0, n_embd |-> 768, n_ctx |-> 2, n_extra |-> 9]
    /\ n_ctx = Some(2)
====
